---- MODULE Spec2Model ----
(***************************************************************************)
(* Model of the discrete-event park simulator (vhotmar/mff-discrete).      *)
(*                                                                         *)
(* The engine (src/discrete_system) keeps a component map, a BinaryHeap of *)
(* dated events and the current time; the park layer (src/park) supplies   *)
(* three component kinds: Carousel, Customer and CustomerDispatcher.       *)
(* One step of the model is one iteration of the drain loop of tick():     *)
(* pop one event, run the target's handler, apply the returned effector.   *)
(***************************************************************************)
EXTENDS Integers, Sequences, FiniteSets, TLC

\* ------------------------------------------------------------------------
\* Bounds of the explored configurations
\* ------------------------------------------------------------------------
MaxCarousels == 2
MaxCustomers == 2
MaxCapacity == 2
MaxRunTime == 2
MaxWaitTime == 1
MaxExtendTime == 3
MaxArrival == 1
MaxVisits == 2
MaxRush == 4
MaxLateArrival == 2
MaxLateCapacity == 3
MaxBootCapacity == 2
MaxBootTime == 1
MaxBootId == 2

\* ------------------------------------------------------------------------
\* Small helpers
\* ------------------------------------------------------------------------
Min(a, b) == IF a <= b THEN a ELSE b

Max(a, b) == IF a >= b THEN a ELSE b

Range(s) == {s[i] : i \in DOMAIN s}

\* ------------------------------------------------------------------------
\* park::Event: the three-way envelope and its projections
\* ------------------------------------------------------------------------
CarouselEvent(name, cycle) == [tag |-> "CarouselEvent", name |-> name, cycle |-> cycle]

CustomerEvent(name) == [tag |-> "CustomerEvent", name |-> name, cycle |-> 0]

CustomerDispatcherEvent(name) == [tag |-> "CustomerDispatcherEvent", name |-> name, cycle |-> 0]

None == [tag |-> "None", name |-> "None", cycle |-> 0]

IntoCarouselEvent(m) == IF m.tag = "CarouselEvent" THEN m ELSE None

IntoCustomerEvent(m) == IF m.tag = "CustomerEvent" THEN m ELSE None

IntoDispatcherEvent(m) == IF m.tag = "CustomerDispatcherEvent" THEN m ELSE None

\* ------------------------------------------------------------------------
\* Effector: the batch of side effects returned by one handler
\* ------------------------------------------------------------------------
SelfAddress == [self |-> TRUE, remote |-> 0]

RemoteAddress(a) == [self |-> FALSE, remote |-> a]

NewEffector == [events |-> <<>>, components |-> <<>>]

schedule_in(eff, address, in_time, message) ==
    [eff EXCEPT !.events = Append(@, [in_time |-> in_time, message |-> message,
                                      address |-> RemoteAddress(address)])]

schedule_immediately(eff, address, message) ==
    [eff EXCEPT !.events = Append(@, [in_time |-> 0, message |-> message,
                                      address |-> RemoteAddress(address)])]

schedule_in_to_self(eff, in_time, message) ==
    [eff EXCEPT !.events = Append(@, [in_time |-> in_time, message |-> message,
                                      address |-> SelfAddress])]

instantiate_new_component(eff, data) ==
    [eff EXCEPT !.components = Append(@, data)]

\* ------------------------------------------------------------------------
\* std BinaryHeap as used by the engine (events) and the dispatcher
\* (customers_configs).  The heap is a max-heap over Ord; both Ord impls
\* reverse the comparison of one u32 key, so the greatest element is the one
\* with the smallest key.  Elements with equal keys compare Equal.
\* Positions are 1-based here: parent of p is p \div 2, children 2p, 2p+1.
\* ------------------------------------------------------------------------
Key(x) == IF "time" \in DOMAIN x THEN x.time ELSE x.arrival_time

\* a <= b in the Ord of Event / CustomerConfig (cmp is other.key.cmp(self.key))
OrdLe(a, b) == Key(b) <= Key(a)

\* a < b in that Ord
OrdLt(a, b) == Key(b) < Key(a)

RECURSIVE SiftUpHole(_, _, _, _)
SiftUpHole(data, el, start, pos) ==
    IF pos > start /\ ~OrdLe(el, data[pos \div 2])
    THEN SiftUpHole([data EXCEPT ![pos] = data[pos \div 2]], el, start, pos \div 2)
    ELSE [data EXCEPT ![pos] = el]

sift_up(data, start, pos) == SiftUpHole(data, data[pos], start, pos)

HeapPush(data, item) == sift_up(Append(data, item), 1, Len(data) + 1)

\* the hole descends to a leaf, always towards the greater child (the right
\* one on a tie); returns the array with the hole's element placed at the
\* position reached, and that position
RECURSIVE SiftDownHole(_, _, _)
SiftDownHole(data, el, pos) ==
    LET end == Len(data)
        child == 2 * pos
    IN  IF child + 1 <= end
        THEN LET c == IF OrdLe(data[child], data[child + 1]) THEN child + 1 ELSE child
             IN  SiftDownHole([data EXCEPT ![pos] = data[c]], el, c)
        ELSE IF child = end
             THEN [data |-> [data EXCEPT ![pos] = data[child], ![child] = el], pos |-> child]
             ELSE [data |-> [data EXCEPT ![pos] = el], pos |-> pos]

sift_down_to_bottom(data, pos) ==
    LET r == SiftDownHole(data, data[pos], pos)
    IN  sift_up(r.data, pos, r.pos)

HeapPeek(data) == data[1]

\* pop: remove the last slot, swap it with the root, restore the heap
HeapPopRest(data) ==
    LET n == Len(data)
        rest == SubSeq(data, 1, n - 1)
    IN  IF n = 1 THEN <<>>
        ELSE sift_down_to_bottom([rest EXCEPT ![1] = data[n]], 1)

\* sift_down of rebuild(): stops as soon as the element is in order
RECURSIVE SiftDownRange(_, _, _)
SiftDownRange(data, el, pos) ==
    LET end == Len(data)
        child == 2 * pos
    IN  IF child + 1 <= end
        THEN LET c == IF OrdLe(data[child], data[child + 1]) THEN child + 1 ELSE child
             IN  IF OrdLe(data[c], el)
                 THEN [data EXCEPT ![pos] = el]
                 ELSE SiftDownRange([data EXCEPT ![pos] = data[c]], el, c)
        ELSE IF child = end /\ OrdLt(el, data[child])
             THEN [data EXCEPT ![pos] = data[child], ![child] = el]
             ELSE [data EXCEPT ![pos] = el]

RECURSIVE Rebuild(_, _)
Rebuild(data, n) ==
    IF n = 0 THEN data ELSE Rebuild(SiftDownRange(data, data[n], n), n - 1)

\* BinaryHeap::from(vec)
HeapFrom(vec) == Rebuild(vec, Len(vec) \div 2)

\* ------------------------------------------------------------------------
\* Carousel (src/park/carousel.rs)
\* ------------------------------------------------------------------------
Idle(next_state) == [name |-> "Idle", next |-> next_state, time |-> 0]

StandardWaiting == [name |-> "StandardWaiting", next |-> "", time |-> 0]

ExtendedWaiting == [name |-> "ExtendedWaiting", next |-> "", time |-> 0]

Starting(time) == [name |-> "Starting", next |-> "", time |-> time]

Running == [name |-> "Running", next |-> "", time |-> 0]

\* Carousel::new; avg_customers_on_ride (an f64 running mean) is not modelled
NewCarousel(config) ==
    [kind |-> "Carousel",
     config |-> config,
     state |-> Idle("StandardWaiting"),
     customers_inner_queue |-> <<>>,
     customers_outer_queue |-> <<>>,
     customers_on_ride |-> <<>>,
     cycle |-> 0,
     rides |-> 0,
     max_customers_queue_len |-> 0,
     idle_time |-> 0,
     idle_started |-> 0]

\* the procedures take and return the pair (carousel, effector)
\* start_ride without line 127 (self.cycle += 1)
start_ride_KeepCycle(c, time, eff) ==
    [comp |-> [c EXCEPT !.state = Starting(time)],
     eff |-> schedule_in_to_self(eff, 1, CarouselEvent("Start", 0))]

\* start_ride scheduling Start for the current tick (line 129 with delay 0)
start_ride_NoDelay(c, time, eff) ==
    [comp |-> [c EXCEPT !.state = Starting(time), !.cycle = @ + 1],
     eff |-> schedule_in_to_self(eff, 0, CarouselEvent("Start", 0))]

start_ride(c, time, eff) ==
    [comp |-> [c EXCEPT !.state = Starting(time), !.cycle = @ + 1],
     eff |-> schedule_in_to_self(eff, 1, CarouselEvent("Start", 0))]

RECURSIVE ScheduleToAll(_, _, _)
ScheduleToAll(eff, infos, message) ==
    IF infos = <<>> THEN eff
    ELSE ScheduleToAll(schedule_immediately(eff, Head(infos).address, message),
                       Tail(infos), message)

\* do_ride whose riders stay in the inner queue (line 135 copying instead of
\* taking the inner queue)
do_ride_KeepInner(c, eff) ==
    LET on_ride == c.customers_inner_queue
        e1 == ScheduleToAll(eff, on_ride, CustomerEvent("RideStarted"))
    IN  [comp |-> [c EXCEPT !.state = Running, !.customers_on_ride = on_ride],
         eff |-> schedule_in_to_self(e1, c.config.run_time - 1, CarouselEvent("EndRide", 0))]

\* do_ride scheduling EndRide in run_time instead of run_time - 1 (line 153)
do_ride_LateEnd(c, eff) ==
    LET on_ride == c.customers_inner_queue
        e1 == ScheduleToAll(eff, on_ride, CustomerEvent("RideStarted"))
        customers_to_move == Min(c.config.capacity, Len(c.customers_outer_queue))
        outer == c.customers_outer_queue
    IN  [comp |-> [c EXCEPT !.state = Running,
                            !.customers_on_ride = on_ride,
                            !.customers_inner_queue = SubSeq(outer, 1, customers_to_move),
                            !.customers_outer_queue =
                                SubSeq(outer, customers_to_move + 1, Len(outer))],
         eff |-> schedule_in_to_self(e1, c.config.run_time, CarouselEvent("EndRide", 0))]

\* do_ride without the refill of lines 143-151
do_ride_NoRefill(c, eff) ==
    LET on_ride == c.customers_inner_queue
        e1 == ScheduleToAll(eff, on_ride, CustomerEvent("RideStarted"))
    IN  [comp |-> [c EXCEPT !.state = Running,
                            !.customers_on_ride = on_ride,
                            !.customers_inner_queue = <<>>],
         eff |-> schedule_in_to_self(e1, c.config.run_time - 1, CarouselEvent("EndRide", 0))]

\* do_ride whose refill moves one customer at most (line 143 with 1 for the
\* capacity)
do_ride_RefillOne(c, eff) ==
    LET on_ride == c.customers_inner_queue
        e1 == ScheduleToAll(eff, on_ride, CustomerEvent("RideStarted"))
        customers_to_move == Min(1, Len(c.customers_outer_queue))
        outer == c.customers_outer_queue
    IN  [comp |-> [c EXCEPT !.state = Running,
                            !.customers_on_ride = on_ride,
                            !.customers_inner_queue = SubSeq(outer, 1, customers_to_move),
                            !.customers_outer_queue =
                                SubSeq(outer, customers_to_move + 1, Len(outer))],
         eff |-> schedule_in_to_self(e1, c.config.run_time - 1, CarouselEvent("EndRide", 0))]

do_ride(c, eff) ==
    LET on_ride == c.customers_inner_queue
        e1 == ScheduleToAll(eff, on_ride, CustomerEvent("RideStarted"))
        customers_to_move == Min(c.config.capacity, Len(c.customers_outer_queue))
        outer == c.customers_outer_queue
    IN  [comp |-> [c EXCEPT !.state = Running,
                            !.customers_on_ride = on_ride,
                            !.customers_inner_queue = SubSeq(outer, 1, customers_to_move),
                            !.customers_outer_queue =
                                SubSeq(outer, customers_to_move + 1, Len(outer))],
         eff |-> schedule_in_to_self(e1, c.config.run_time - 1, CarouselEvent("EndRide", 0))]

start_standard_wait(c, eff) ==
    [comp |-> [c EXCEPT !.state = StandardWaiting],
     eff |-> schedule_in_to_self(eff, c.config.wait_time,
                                 CarouselEvent("StandardWaitEnded", c.cycle))]

start_extended_wait(c, eff) ==
    [comp |-> [c EXCEPT !.state = ExtendedWaiting],
     eff |-> schedule_in_to_self(eff, c.config.extend_time,
                                 CarouselEvent("ExtendedWaitEnded", c.cycle))]

\* end_ride that skips the first rider when sending RideEnded
end_ride_SkipFirst(c, eff) ==
    LET e1 == ScheduleToAll(eff, Tail(c.customers_on_ride), CustomerEvent("RideEnded"))
    IN  start_standard_wait([c EXCEPT !.rides = @ + 1, !.customers_on_ride = <<>>], e1)

end_ride(c, eff) ==
    LET e1 == ScheduleToAll(eff, c.customers_on_ride, CustomerEvent("RideEnded"))
    IN  start_standard_wait([c EXCEPT !.rides = @ + 1, !.customers_on_ride = <<>>], e1)

\* handler preamble, line 196: the queue-length metric is refreshed on entry
RefreshMetric(c) ==
    [c EXCEPT !.max_customers_queue_len =
        Max(Len(c.customers_inner_queue) + Len(c.customers_outer_queue), @)]

\* intake without the capacity test of line 209
Intake_NoLimit(c, info, msg) ==
    IF msg.name # "CustomerArrived" THEN c
    ELSE LET customer_info == [address |-> info.sender_address,
                               arrival_time |-> info.current_time]
         IN  IF c.state.name = "Starting" /\ info.current_time # c.state.time
             THEN [c EXCEPT !.customers_outer_queue = Append(@, customer_info)]
             ELSE [c EXCEPT !.customers_inner_queue = Append(@, customer_info)]

\* intake without the Starting arm of lines 205-207
Intake_NoDivert(c, info, msg) ==
    IF msg.name # "CustomerArrived" THEN c
    ELSE LET customer_info == [address |-> info.sender_address,
                               arrival_time |-> info.current_time]
         IN  IF Len(c.customers_inner_queue) < c.config.capacity
             THEN [c EXCEPT !.customers_inner_queue = Append(@, customer_info)]
             ELSE [c EXCEPT !.customers_outer_queue = Append(@, customer_info)]

\* intake that puts an overflowing customer at the front of the outer queue
\* (push_front for the push_back of lines 206 and 212)
Intake_PushFront(c, info, msg) ==
    IF msg.name # "CustomerArrived" THEN c
    ELSE LET customer_info == [address |-> info.sender_address,
                               arrival_time |-> info.current_time]
         IN  IF c.state.name = "Starting" /\ info.current_time # c.state.time
             THEN [c EXCEPT !.customers_outer_queue = <<customer_info>> \o @]
             ELSE IF Len(c.customers_inner_queue) < c.config.capacity
                  THEN [c EXCEPT !.customers_inner_queue = Append(@, customer_info)]
                  ELSE [c EXCEPT !.customers_outer_queue = <<customer_info>> \o @]

\* handler preamble, lines 198-216: a CustomerArrived puts the sender in a queue
Intake(c, info, msg) ==
    IF msg.name # "CustomerArrived" THEN c
    ELSE LET customer_info == [address |-> info.sender_address,
                               arrival_time |-> info.current_time]
         IN  IF c.state.name = "Starting" /\ info.current_time # c.state.time
             THEN [c EXCEPT !.customers_outer_queue = Append(@, customer_info)]
             ELSE IF Len(c.customers_inner_queue) < c.config.capacity
                  THEN [c EXCEPT !.customers_inner_queue = Append(@, customer_info)]
                  ELSE [c EXCEPT !.customers_outer_queue = Append(@, customer_info)]

\* the Idle arm entering the waiting mode without scheduling its timer
HandleIdle_NoTimer(c, info, msg, eff) ==
    LET c1 == [c EXCEPT !.idle_time = @ + (info.current_time - c.idle_started)]
    IN  IF msg.name = "CustomerArrived"
        THEN IF c.state.next = "StandardWaiting"
             THEN [comp |-> [c1 EXCEPT !.state = StandardWaiting], eff |-> eff]
             ELSE [comp |-> [c1 EXCEPT !.state = ExtendedWaiting], eff |-> eff]
        ELSE [comp |-> c1, eff |-> eff]

\* lines 219-236.  Idle(next) is only ever built with next = StandardWaiting
\* (Carousel::new) or next = ExtendedWaiting (line 243).
HandleIdle(c, info, msg, eff) ==
    LET c1 == [c EXCEPT !.idle_time = @ + (info.current_time - c.idle_started)]
    IN  IF msg.name = "CustomerArrived"
        THEN IF c.state.next = "StandardWaiting" THEN start_standard_wait(c1, eff)
             ELSE start_extended_wait(c1, eff)
        ELSE [comp |-> c1, eff |-> eff]

\* the StandardWaiting arm without the empty-queue case of lines 241-243
HandleStandardWaiting_NoIdle(c, info, msg, eff) ==
    IF msg.name = "StandardWaitEnded" /\ c.cycle = msg.cycle
    THEN IF Len(c.customers_inner_queue) >= c.config.min_capacity
         THEN start_ride(c, info.current_time, eff)
         ELSE start_extended_wait(c, eff)
    ELSE [comp |-> c, eff |-> eff]

\* the StandardWaiting arm starting the ride whatever the queue holds
\* (line 239 without its test)
HandleStandardWaiting_AlwaysStart(c, info, msg, eff) ==
    IF msg.name = "StandardWaitEnded" /\ c.cycle = msg.cycle
    THEN start_ride(c, info.current_time, eff)
    ELSE [comp |-> c, eff |-> eff]

\* lines 237-249
HandleStandardWaiting(c, info, msg, eff) ==
    IF msg.name = "StandardWaitEnded" /\ c.cycle = msg.cycle
    THEN IF Len(c.customers_inner_queue) >= c.config.min_capacity
         THEN start_ride(c, info.current_time, eff)
         ELSE IF Len(c.customers_inner_queue) = 0
              THEN [comp |-> [c EXCEPT !.idle_started = info.current_time,
                                       !.state = Idle("ExtendedWaiting")],
                    eff |-> eff]
              ELSE start_extended_wait(c, eff)
    ELSE [comp |-> c, eff |-> eff]

\* the ExtendedWaiting arm without the cycle guard of line 256
HandleExtendedWaiting_AnyCycle(c, info, msg, eff) ==
    IF msg.name = "CustomerArrived"
    THEN IF Len(c.customers_inner_queue) >= c.config.min_capacity
         THEN start_ride(c, info.current_time, eff)
         ELSE [comp |-> c, eff |-> eff]
    ELSE IF msg.name = "ExtendedWaitEnded"
         THEN start_ride(c, info.current_time, eff)
         ELSE [comp |-> c, eff |-> eff]

\* lines 250-260
HandleExtendedWaiting(c, info, msg, eff) ==
    IF msg.name = "CustomerArrived"
    THEN IF Len(c.customers_inner_queue) >= c.config.min_capacity
         THEN start_ride(c, info.current_time, eff)
         ELSE [comp |-> c, eff |-> eff]
    ELSE IF msg.name = "ExtendedWaitEnded" /\ c.cycle = msg.cycle
         THEN start_ride(c, info.current_time, eff)
         ELSE [comp |-> c, eff |-> eff]

\* lines 261-264
HandleRunning(c, info, msg, eff) ==
    IF msg.name = "EndRide" THEN end_ride(c, eff) ELSE [comp |-> c, eff |-> eff]

\* lines 265-268
HandleStarting(c, info, msg, eff) ==
    IF msg.name = "Start" THEN do_ride(c, eff) ELSE [comp |-> c, eff |-> eff]

\* Carousel::handle
CarouselHandle(self, info, message) ==
    LET msg == IntoCarouselEvent(message)
        c == Intake(RefreshMetric(self), info, msg)
        eff == NewEffector
    IN  CASE c.state.name = "Idle" -> HandleIdle(c, info, msg, eff)
          [] c.state.name = "StandardWaiting" -> HandleStandardWaiting(c, info, msg, eff)
          [] c.state.name = "ExtendedWaiting" -> HandleExtendedWaiting(c, info, msg, eff)
          [] c.state.name = "Running" -> HandleRunning(c, info, msg, eff)
          [] c.state.name = "Starting" -> HandleStarting(c, info, msg, eff)

\* the panic of line 231: CustomerArrived reaches an Idle mode whose next
\* state is neither waiting mode
CarouselPanics(self, info, message) ==
    /\ self.state.name = "Idle"
    /\ IntoCarouselEvent(message).name = "CustomerArrived"
    /\ self.state.next \notin {"StandardWaiting", "ExtendedWaiting"}

\* a start that begins the standard wait at once instead of doing nothing
CarouselStart_Waiting(self, info) == start_standard_wait(self, NewEffector)

\* Carousel::start
CarouselStart(self, info) == [comp |-> self, eff |-> NewEffector]

\* ------------------------------------------------------------------------
\* Customer (src/park/customer.rs)
\* ------------------------------------------------------------------------
WaitingOnCarousel(id) == [name |-> "WaitingOnCarousel", id |-> id]

OnCarousel(id) == [name |-> "OnCarousel", id |-> id]

CustomerIdle == [name |-> "Idle", id |-> 0]

\* Customer::new
NewCustomer(carousels, config) ==
    [kind |-> "Customer",
     state |-> CustomerIdle,
     config |-> config,
     carousels |-> carousels,
     started_waiting_on |-> 0,
     number_of_rides |-> 0,
     total_waiting_time |-> 0,
     total_time |-> 0]

next_run(c, eff, time) ==
    LET c1 == [c EXCEPT !.started_waiting_on = time,
                        !.total_time = time - c.config.arrival_time]
    IN  IF c.carousels # <<>>
        THEN LET carousel == Head(c.carousels)
             IN  [comp |-> [c1 EXCEPT !.carousels = Tail(@),
                                      !.state = WaitingOnCarousel(carousel.id)],
                  eff |-> schedule_immediately(eff, carousel.address,
                                               CarouselEvent("CustomerArrived", 0))]
        ELSE [comp |-> [c1 EXCEPT !.state = CustomerIdle], eff |-> eff]

\* Customer::start
CustomerStart(self, info) == next_run(self, NewEffector, info.current_time)

\* Customer::handle
CustomerHandle(self, info, message) ==
    LET msg == IntoCustomerEvent(message)
        eff == NewEffector
    IN  IF self.state.name = "OnCarousel" /\ msg.name = "RideEnded"
        THEN next_run(self, eff, info.current_time)
        ELSE IF self.state.name = "WaitingOnCarousel" /\ msg.name = "RideStarted"
             THEN [comp |-> [self EXCEPT
                       !.state = OnCarousel(self.state.id),
                       !.total_waiting_time =
                           @ + (info.current_time - self.started_waiting_on - 1),
                       !.number_of_rides = @ + 1],
                   eff |-> eff]
             ELSE [comp |-> self, eff |-> eff]

\* ------------------------------------------------------------------------
\* CustomerDispatcher (src/park/customer_dispatcher.rs)
\* ------------------------------------------------------------------------
\* CustomerDispatcher::new; carousels maps a carousel id to its address
NewCustomerDispatcher(carousels, customers_configs) ==
    [kind |-> "CustomerDispatcher",
     carousels |-> carousels,
     customers_configs |-> HeapFrom(customers_configs)]

schedule_next(d, eff, current_time) ==
    IF d.customers_configs # <<>>
    THEN schedule_in_to_self(eff, HeapPeek(d.customers_configs).arrival_time - current_time,
                             CustomerDispatcherEvent("Tick"))
    ELSE eff

\* CustomerDispatcher::start
DispatcherStart(self, info) == [comp |-> self, eff |-> schedule_next(self, NewEffector, 0)]

\* the visit list of a configuration resolved to addresses (lines 91-101)
ResolveCarousels(d, ids) ==
    [i \in 1..Len(ids) |-> [id |-> ids[i], address |-> d.carousels[ids[i]]]]

\* the loop of lines 86-104 as an if: at most one customer is popped per Tick
PopDue_Once(d, eff, current_time) ==
    IF d.customers_configs # <<>> /\ HeapPeek(d.customers_configs).arrival_time = current_time
    THEN LET config == HeapPeek(d.customers_configs)
             customer == NewCustomer(ResolveCarousels(d, config.carousels), config)
         IN  [comp |-> [d EXCEPT !.customers_configs = HeapPopRest(@)],
              eff |-> instantiate_new_component(eff, customer)]
    ELSE [comp |-> d, eff |-> eff]

\* the while loop of lines 86-104
RECURSIVE PopDue(_, _, _)
PopDue(d, eff, current_time) ==
    IF d.customers_configs # <<>> /\ HeapPeek(d.customers_configs).arrival_time = current_time
    THEN LET config == HeapPeek(d.customers_configs)
             customer == NewCustomer(ResolveCarousels(d, config.carousels), config)
         IN  PopDue([d EXCEPT !.customers_configs = HeapPopRest(@)],
                    instantiate_new_component(eff, customer), current_time)
    ELSE [comp |-> d, eff |-> eff]

\* the index self.carousels[id] of line 96 panics on an id the map lacks; it
\* is evaluated for every customer the loop of lines 86-104 pops
RECURSIVE LookupPanics(_, _)
LookupPanics(d, current_time) ==
    IF d.customers_configs # <<>> /\ HeapPeek(d.customers_configs).arrival_time = current_time
    THEN \/ \E j \in DOMAIN HeapPeek(d.customers_configs).carousels :
               HeapPeek(d.customers_configs).carousels[j] \notin DOMAIN d.carousels
         \/ LookupPanics([d EXCEPT !.customers_configs = HeapPopRest(@)], current_time)
    ELSE FALSE

DispatcherPanics(self, info, message) ==
    IntoDispatcherEvent(message).name = "Tick" /\ LookupPanics(self, info.current_time)

\* handle without the schedule_next of line 106
DispatcherHandle_NoReschedule(self, info, message) ==
    LET msg == IntoDispatcherEvent(message)
    IN  IF msg.name = "Tick"
        THEN PopDue(self, NewEffector, info.current_time)
        ELSE [comp |-> self, eff |-> NewEffector]

\* CustomerDispatcher::handle
DispatcherHandle(self, info, message) ==
    LET msg == IntoDispatcherEvent(message)
    IN  IF msg.name = "Tick"
        THEN LET r == PopDue(self, NewEffector, info.current_time)
             IN  [comp |-> r.comp, eff |-> schedule_next(r.comp, r.eff, info.current_time)]
        ELSE [comp |-> self, eff |-> NewEffector]

\* ------------------------------------------------------------------------
\* park::Component: dispatch on the component variant (src/park/mod.rs)
\* ------------------------------------------------------------------------
ComponentStart(self, info) ==
    CASE self.kind = "Carousel" -> CarouselStart(self, info)
      [] self.kind = "Customer" -> CustomerStart(self, info)
      [] self.kind = "CustomerDispatcher" -> DispatcherStart(self, info)

ComponentHandle(self, info, message) ==
    CASE self.kind = "Carousel" -> CarouselHandle(self, info, message)
      [] self.kind = "Customer" -> CustomerHandle(self, info, message)
      [] self.kind = "CustomerDispatcher" -> DispatcherHandle(self, info, message)

\* the handler call panics instead of returning an effector
ComponentPanics(self, info, message) ==
    CASE self.kind = "Carousel" -> CarouselPanics(self, info, message)
      [] self.kind = "Customer" -> FALSE
      [] self.kind = "CustomerDispatcher" -> DispatcherPanics(self, info, message)

\* ------------------------------------------------------------------------
\* DiscreteSystem (src/discrete_system/mod.rs)
\* ------------------------------------------------------------------------
VARIABLES
    config,             \* the SystemConfig handed to bootstrap_system
    current_time,       \* DiscreteSystem.current_time
    components,         \* DiscreteSystem.components: address -> component
    events,             \* DiscreteSystem.events: the BinaryHeap's array
    address_generator,  \* AddressGenerator.curr
    phase,              \* "registered" before start(), "ticking" inside the
                        \* drain loop of tick(), "idle" between two ticks,
                        \* "aborted" once a handler has panicked
    tick_events,        \* the Vec that the running / last tick() returns
    pushed,             \* history: number of events pushed so far
    history,            \* history: every event delivered so far, in order
    start_order         \* history: the addresses in the order start() has just
                        \* started them; forgotten at the next delivery

vars == <<config, current_time, components, events, address_generator, phase,
          tick_events, pushed, history, start_order>>

\* the engine fields as one value, threaded through the operators below
System == [current_time |-> current_time, components |-> components,
           events |-> events, address_generator |-> address_generator,
           pushed |-> pushed]

\* DiscreteSystem::new
NewSystem == [current_time |-> 0, components |-> <<>>, events |-> <<>>,
              address_generator |-> 0, pushed |-> 0]

register_component(sys, c) ==
    [sys EXCEPT !.components = @ @@ (sys.address_generator :> c),
                !.address_generator = @ + 1]

\* lines 85-95: a scheduled event becomes a dated Event; seq numbers the
\* pushes and takes no part in the ordering
DatedEvent_Undated(sys, from_address, event) ==
    [time |-> event.in_time,
     to_address |-> IF event.address.self THEN from_address ELSE event.address.remote,
     from_address |-> from_address,
     message |-> event.message,
     seq |-> sys.pushed + 1]

DatedEvent(sys, from_address, event) ==
    [time |-> sys.current_time + event.in_time,
     to_address |-> IF event.address.self THEN from_address ELSE event.address.remote,
     from_address |-> from_address,
     message |-> event.message,
     seq |-> sys.pushed + 1]

\* lines 84-96: every scheduled event of the effector is pushed on the heap
RECURSIVE PushEvents(_, _, _)
PushEvents(sys, from_address, evs) ==
    IF evs = <<>> THEN sys
    ELSE PushEvents([sys EXCEPT !.events = HeapPush(@, DatedEvent(sys, from_address, Head(evs))),
                                !.pushed = @ + 1],
                    from_address, Tail(evs))

RECURSIVE apply_effector(_, _, _)
RECURSIVE start_component(_, _)
RECURSIVE SpawnComponents(_, _)

start_component(sys, address) ==
    LET r == ComponentStart(sys.components[address],
                            [self_address |-> address, current_time |-> sys.current_time])
    IN  apply_effector([sys EXCEPT !.components[address] = r.comp], address, r.eff)

\* lines 98-102: register and start each new component, in effector order
SpawnComponents(sys, comps) ==
    IF comps = <<>> THEN sys
    ELSE LET addr == sys.address_generator
         IN  SpawnComponents(start_component(register_component(sys, Head(comps)), addr),
                             Tail(comps))

apply_effector(sys, from_address, effector) ==
    SpawnComponents(PushEvents(sys, from_address, effector.events), effector.components)

\* ------------------------------------------------------------------------
\* bootstrap_system (src/main.rs): the explored configurations are validated
\* ones; carousel i of the configuration has id i
\* ------------------------------------------------------------------------
SeqsUpTo(S, n) == UNION {[1..k -> S] : k \in 0..n}

\* the capacity pairs and the times a carousel of the explored parks can have
Capacities(max) == {cm \in [capacity : 1..max, min_capacity : 1..max] :
                       cm.min_capacity <= cm.capacity}

Timings == [run_time : 1..MaxRunTime, wait_time : 1..MaxWaitTime,
            extend_time : 1..MaxExtendTime]

CarouselConfig(id, cm, t) ==
    [id |-> id, min_capacity |-> cm.min_capacity, capacity |-> cm.capacity,
     run_time |-> t.run_time, wait_time |-> t.wait_time, extend_time |-> t.extend_time]

CustomerConfig(id, arrival_time, carousels) ==
    [id |-> id, arrival_time |-> arrival_time, carousels |-> carousels]

\* a park of up to MaxCarousels carousels of one make (carousel i has id i) and
\* up to MaxCustomers customers with any arrival times and visit lists
ParkConfigs ==
    UNION {
      {[carousels |-> [i \in 1..n |-> CarouselConfig(i, cm, t)],
        customers |-> [i \in 1..k |-> CustomerConfig(i, cu[i].a, cu[i].v)]] :
          cm \in Capacities(MaxCapacity), t \in Timings,
          cu \in [1..k -> [a : 0..MaxArrival, v : SeqsUpTo(1..n, MaxVisits)]]} :
      n \in 1..MaxCarousels, k \in 0..MaxCustomers}

\* a rush: up to MaxRush customers arrive together at time 0 at one carousel,
\* each for the same number of rides
RushConfigs ==
    UNION {
      {[carousels |-> <<CarouselConfig(1, cm, t)>>,
        customers |-> [i \in 1..k |-> CustomerConfig(i, 0, [j \in 1..v |-> 1])]] :
          cm \in Capacities(MaxRush), t \in Timings} :
      k \in 1..MaxRush, v \in 1..MaxVisits}

\* a trickle: MaxRush customers come to one carousel one tick after the other
\* from time 0 on, those after time MaxLateArrival together at that time
LateConfigs ==
    {[carousels |-> <<CarouselConfig(1, cm, t)>>,
      customers |-> [i \in 1..MaxRush |->
                        CustomerConfig(i, Min(i - 1, MaxLateArrival), <<1>>)]] :
        cm \in Capacities(MaxLateCapacity), t \in Timings}

SystemConfigs == ParkConfigs \cup RushConfigs \cup LateConfigs

\* the carousel loop with the check of line 56 reduced to min_capacity <= 0
RECURSIVE ValidateCarousels_NoUpperLimit(_, _)
ValidateCarousels_NoUpperLimit(carousels, s) ==
    IF carousels = <<>> THEN [ok |-> TRUE, s |-> s]
    ELSE LET carousel == Head(carousels)
         IN  IF carousel.id \in s THEN [ok |-> FALSE, s |-> s]
             ELSE IF carousel.run_time <= 0 \/ carousel.extend_time <= 0
                        \/ carousel.wait_time <= 0 \/ carousel.capacity <= 0
                        \/ carousel.min_capacity <= 0
                  THEN [ok |-> FALSE, s |-> s \cup {carousel.id}]
                  ELSE ValidateCarousels_NoUpperLimit(Tail(carousels), s \cup {carousel.id})

\* lines 33-61: the loop over the carousels; s is the HashSet of the ids seen,
\* ok is FALSE when the loop has returned an Err
RECURSIVE ValidateCarousels(_, _)
ValidateCarousels(carousels, s) ==
    IF carousels = <<>> THEN [ok |-> TRUE, s |-> s]
    ELSE LET carousel == Head(carousels)
             seen == s \cup {carousel.id}
         IN  IF carousel.id \in s THEN [ok |-> FALSE, s |-> s]
             ELSE IF carousel.run_time <= 0 \/ carousel.extend_time <= 0
                        \/ carousel.wait_time <= 0
                  THEN [ok |-> FALSE, s |-> seen]
                  ELSE IF carousel.capacity <= 0
                       THEN [ok |-> FALSE, s |-> seen]
                       ELSE IF carousel.min_capacity <= 0
                                  \/ carousel.min_capacity > carousel.capacity
                            THEN [ok |-> FALSE, s |-> seen]
                            ELSE ValidateCarousels(Tail(carousels), seen)

\* validate_config: TRUE for Ok(()), FALSE for an Err; lines 63-69 are the loop
\* over the customers' visit lists
validate_config(cfg) ==
    LET r == ValidateCarousels(cfg.carousels, {})
    IN  /\ r.ok
        /\ \A i \in DOMAIN cfg.customers : \A j \in DOMAIN cfg.customers[i].carousels :
              cfg.customers[i].carousels[j] \in r.s

RECURSIVE RegisterCarousels(_, _)
RegisterCarousels(sys, carousels) ==
    IF carousels = <<>> THEN sys
    ELSE RegisterCarousels(register_component(sys, NewCarousel(Head(carousels))),
                           Tail(carousels))

\* the map without its entry for the last carousel of the configuration
CarouselsMap_LastMissing(cfg) ==
    [id \in {cfg.carousels[i].id : i \in 1..(Len(cfg.carousels) - 1)} |->
        (CHOOSE i \in DOMAIN cfg.carousels : cfg.carousels[i].id = id) - 1]

\* the id -> address map collected while the carousels are registered
CarouselsMap(cfg) ==
    [id \in {cfg.carousels[i].id : i \in DOMAIN cfg.carousels} |->
        (CHOOSE i \in DOMAIN cfg.carousels : cfg.carousels[i].id = id) - 1]

\* the engine as built by bootstrap_system before it calls start()
Registered(cfg) ==
    register_component(RegisterCarousels(NewSystem, cfg.carousels),
                       NewCustomerDispatcher(CarouselsMap(cfg), cfg.customers))

Init ==
    /\ config \in {cfg \in SystemConfigs : validate_config(cfg)}
    /\ current_time = Registered(config).current_time
    /\ components = Registered(config).components
    /\ events = Registered(config).events
    /\ address_generator = Registered(config).address_generator
    /\ phase = "registered"
    /\ tick_events = <<>>
    /\ pushed = 0
    /\ history = <<>>
    /\ start_order = <<>>

\* ------------------------------------------------------------------------
\* The driver: start(), then tick() while events remain
\* ------------------------------------------------------------------------
SetSystem(sys) ==
    /\ current_time' = sys.current_time
    /\ components' = sys.components
    /\ events' = sys.events
    /\ address_generator' = sys.address_generator
    /\ pushed' = sys.pushed

RECURSIVE StartAll(_, _)
StartAll(sys, addresses) ==
    IF addresses = <<>> THEN sys
    ELSE StartAll(start_component(sys, Head(addresses)), Tail(addresses))

\* the orders in which HashMap::keys may yield the registered addresses
KeyOrders(S) == {o \in [1..Cardinality(S) -> S] : \A i, j \in DOMAIN o : i # j => o[i] # o[j]}

\* the loop condition of tick(), line 114
MoreNow_Before(evs, now) == evs # <<>> /\ HeapPeek(evs).time < now

MoreNow(evs, now) == evs # <<>> /\ HeapPeek(evs).time = now

\* the condition under which start() runs a tick, line 142
DueAtZero(evs) == evs # <<>> /\ HeapPeek(evs).time = 0

\* start(), lines 135-141: every registered component is started, in the
\* order HashMap::keys yields the addresses; if an event is due at time 0,
\* start() enters tick() and the drain loop begins
Start ==
    /\ phase = "registered"
    /\ \E addresses \in KeyOrders(DOMAIN components) :
          LET sys == StartAll(System, addresses)
          IN  /\ SetSystem(sys)
              /\ phase' = IF DueAtZero(sys.events) THEN "ticking" ELSE "idle"
              /\ start_order' = addresses
    /\ tick_events' = <<>>
    /\ UNCHANGED <<config, history>>

\* tick(), lines 108-112, entered on a non-empty queue
TickBegin(sys) == [sys EXCEPT !.current_time = HeapPeek(sys.events).time]

\* one iteration of the drain loop, lines 116-129
HandleOne(sys) ==
    LET event == HeapPeek(sys.events)
        r == ComponentHandle(sys.components[event.to_address],
                             [self_address |-> event.to_address,
                              sender_address |-> event.from_address,
                              current_time |-> sys.current_time],
                             event.message)
    IN  apply_effector([sys EXCEPT !.events = HeapPopRest(@),
                                   !.components[event.to_address] = r.comp],
                       event.to_address, r.eff)

\* the handler called at line 120 for the event about to be popped panics
Panics(sys) ==
    LET event == HeapPeek(sys.events)
    IN  ComponentPanics(sys.components[event.to_address],
                        [self_address |-> event.to_address,
                         sender_address |-> event.from_address,
                         current_time |-> sys.current_time],
                        event.message)

\* One delivery to a component of the given kind.  From phase "idle" the step
\* first enters tick(); in every case it pops one event, runs the handler and
\* applies its effector; when the loop condition then fails, tick() returns
\* tick_events and the phase is "idle" again.  A handler that panics
\* aborts the run.
Handle(kind) ==
    /\ phase \in {"idle", "ticking"}
    /\ events # <<>>
    /\ components[HeapPeek(events).to_address].kind = kind
    /\ IF Panics(IF phase = "idle" THEN TickBegin(System) ELSE System)
       THEN /\ phase' = "aborted"
            /\ UNCHANGED <<config, current_time, components, events, address_generator,
                           tick_events, pushed, history, start_order>>
       ELSE /\ LET sys == HandleOne(IF phase = "idle" THEN TickBegin(System) ELSE System)
               IN  /\ SetSystem(sys)
                   /\ phase' = IF MoreNow(sys.events, sys.current_time)
                               THEN "ticking" ELSE "idle"
            /\ tick_events' = Append(IF phase = "idle" THEN <<>> ELSE tick_events,
                                     HeapPeek(events))
            /\ history' = Append(history, HeapPeek(events))
            /\ start_order' = <<>>
            /\ UNCHANGED config

HandleCarousel == Handle("Carousel")

HandleCustomer == Handle("Customer")

HandleDispatcher == Handle("CustomerDispatcher")

Next ==
    \/ Start
    \/ HandleCarousel
    \/ HandleCustomer
    \/ HandleDispatcher

Spec == Init /\ [][Next]_vars

\* ------------------------------------------------------------------------
\* bootstrap_system on configurations that may break the validation rules
\* ------------------------------------------------------------------------
\* carousels with capacities and times from 0; the first has id 1, the second
\* any id and one value for its three times; at most one customer, whose
\* visit list is empty or names one id, defined or not
BootCarousels ==
    {<<c>> : c \in [id : {1}, capacity : 0..MaxBootCapacity,
                    min_capacity : 0..MaxBootCapacity, run_time : 0..MaxBootTime,
                    wait_time : 0..MaxBootTime, extend_time : 0..MaxBootTime]}
    \cup
    {<<c, CarouselConfig(id, cm, [run_time |-> t, wait_time |-> t, extend_time |-> t])>> :
        c \in [id : {1}, capacity : 0..MaxBootCapacity,
               min_capacity : 0..MaxBootCapacity, run_time : 0..MaxBootTime,
               wait_time : 0..MaxBootTime, extend_time : 0..MaxBootTime],
        id \in 1..MaxBootId,
        cm \in [capacity : 0..MaxBootCapacity, min_capacity : 0..MaxBootCapacity],
        t \in 0..MaxBootTime}

BootConfigs ==
    {[carousels |-> cs, customers |-> <<CustomerConfig(1, 0, v)>>] :
        cs \in BootCarousels, v \in SeqsUpTo(1..(MaxBootId + 1), 1)}

\* before bootstrap_system is called there is a configuration and no engine
InitBoot ==
    /\ config \in BootConfigs
    /\ current_time = NewSystem.current_time
    /\ components = NewSystem.components
    /\ events = NewSystem.events
    /\ address_generator = NewSystem.address_generator
    /\ phase = "config"
    /\ tick_events = <<>>
    /\ pushed = 0
    /\ history = <<>>
    /\ start_order = <<>>

\* bootstrap_system, line 75 returning the Err of validate_config
BootstrapErr ==
    /\ phase = "config"
    /\ ~validate_config(config)
    /\ phase' = "rejected"
    /\ UNCHANGED <<config, current_time, components, events, address_generator,
                   tick_events, pushed, history, start_order>>

\* bootstrap_system, lines 75-94, validate_config returning Ok: the engine is
\* built, the components are registered and start() is run
BootstrapOk ==
    /\ phase = "config"
    /\ validate_config(config)
    /\ \E addresses \in KeyOrders(DOMAIN Registered(config).components) :
          LET sys == StartAll(Registered(config), addresses)
          IN  /\ SetSystem(sys)
              /\ phase' = IF DueAtZero(sys.events) THEN "ticking" ELSE "idle"
              /\ start_order' = addresses
    /\ UNCHANGED <<config, tick_events, history>>

NextBoot ==
    \/ BootstrapErr
    \/ BootstrapOk

SpecBoot == InitBoot /\ [][NextBoot]_vars

\* ------------------------------------------------------------------------
\* Vocabulary of the properties
\* ------------------------------------------------------------------------
Addresses(kind) == {a \in DOMAIN components : components[a].kind = kind}

\* every event pushed so far: the delivered ones and the queued ones
AllPushed == Range(history) \cup Range(events)

\* the events of a set, in the order they were pushed
RECURSIVE BySeq(_)
BySeq(S) ==
    IF S = {} THEN <<>>
    ELSE LET first == CHOOSE e \in S : \A f \in S : e.seq <= f.seq
         IN  <<first>> \o BySeq(S \ {first})

\* the run is over: the driver's loop finds the queue empty
Quiescent == phase = "idle" /\ events = <<>>

\* ------------------------------------------------------------------------
\* C1: events are delivered in non-decreasing time order, and events with
\* the same timestamp are delivered in the order they were pushed (FIFO).
\* ------------------------------------------------------------------------
C1_TimeThenInsertionOrder ==
    \A i, j \in DOMAIN history :
        i < j => \/ history[i].time < history[j].time
                 \/ /\ history[i].time = history[j].time
                    /\ history[i].seq < history[j].seq

\* ------------------------------------------------------------------------
\* C2: when tick() has returned, every event still queued is later than
\* current_time, and the returned list is exactly the events delivered at
\* current_time (zero-delay cascades included), in delivery order.
\* ------------------------------------------------------------------------
DeliveredAt(now) ==
    LET At(e) == e.time = now IN SelectSeq(history, At)

C2_TickDrainsTimestamp ==
    phase = "idle" =>
        /\ \A i \in DOMAIN events : events[i].time > current_time
        /\ tick_events = DeliveredAt(current_time)
        /\ \A i \in DOMAIN tick_events : tick_events[i].time = current_time

\* a tick has returned after delivering a zero-delay CustomerArrived that a
\* customer spawned in this very tick had sent, with later events still queued
C2_Witness ==
    /\ phase = "idle"
    /\ events # <<>>
    /\ current_time > 0
    /\ \E i, j \in DOMAIN tick_events :
          /\ i < j
          /\ tick_events[i].message.name = "Tick"
          /\ tick_events[j].message.name = "CustomerArrived"

C4_InnerWithinCapacity ==
    \A a \in Addresses("Carousel") :
        Len(components[a].customers_inner_queue) <= components[a].config.capacity

\* a ride is running, the refill has filled the inner queue to capacity and
\* customers are still left in the outer queue
C4_Witness ==
    \E a \in Addresses("Carousel") :
        /\ components[a].state.name = "Running"
        /\ Len(components[a].customers_inner_queue) = components[a].config.capacity
        /\ components[a].customers_outer_queue # <<>>

\* ------------------------------------------------------------------------
\* C5: a customer address appears at most once in the inner and outer
\* queues of all carousels together.
\* ------------------------------------------------------------------------
Queue(a) == components[a].customers_inner_queue \o components[a].customers_outer_queue

C5_QueuedAtMostOnce ==
    \A a, b \in Addresses("Carousel") :
        \A i \in DOMAIN Queue(a), j \in DOMAIN Queue(b) :
            Queue(a)[i].address = Queue(b)[j].address => a = b /\ i = j

\* a customer whose visit list names the same carousel twice has had its first
\* ride and is queued at that carousel again
C5_Witness ==
    \E x \in Addresses("Customer"), a \in Addresses("Carousel") :
        /\ components[x].number_of_rides = 1
        /\ Len(components[x].config.carousels) = 2
        /\ components[x].config.carousels[1] = components[x].config.carousels[2]
        /\ \E i \in DOMAIN Queue(a) : Queue(a)[i].address = x

\* ------------------------------------------------------------------------
\* C6: for every customer the delivered ride messages alternate: a
\* RideStarted, then the RideEnded of the same carousel, and so on (so a
\* RideEnded never precedes its RideStarted); the customer has sent at most
\* one CustomerArrived more than it has been delivered RideEnded messages;
\* and when the run is over every RideStarted has had its RideEnded.
\* ------------------------------------------------------------------------
DeliveredTo(x) ==
    LET To(e) == e.to_address = x IN SelectSeq(history, To)

ArrivalsSentBy(x) ==
    Cardinality({e \in AllPushed : e.from_address = x /\ e.message.name = "CustomerArrived"})

C6_RideStartedThenEnded ==
    \A x \in Addresses("Customer") :
        LET h == DeliveredTo(x)
        IN  /\ \A i \in DOMAIN h :
                  IF i % 2 = 1 THEN h[i].message.name = "RideStarted"
                  ELSE /\ h[i].message.name = "RideEnded"
                       /\ h[i].from_address = h[i - 1].from_address
            /\ ArrivalsSentBy(x) <= (Len(h) \div 2) + 1
            /\ Quiescent => Len(h) % 2 = 0

\* ------------------------------------------------------------------------
\* C7: for every carousel, the customers sent RideStarted, in sending order,
\* are those sent RideEnded followed by those now on the ride, and nobody is
\* on the ride outside mode Running: each ride's RideEnded messages go to
\* exactly the customers of its RideStarted messages, which are on_ride
\* when EndRide is handled.
\* ------------------------------------------------------------------------
SentBy(a, name) ==
    LET batch == BySeq({e \in AllPushed : e.from_address = a /\ e.message.name = name})
    IN  [i \in DOMAIN batch |-> batch[i].to_address]

OnRide(a) ==
    [i \in DOMAIN components[a].customers_on_ride |->
        components[a].customers_on_ride[i].address]

C7_RideStartedMatchesRideEnded ==
    \A a \in Addresses("Carousel") :
        /\ SentBy(a, "RideStarted") = SentBy(a, "RideEnded") \o OnRide(a)
        /\ components[a].state.name # "Running" => OnRide(a) = <<>>

\* a carousel has ended a ride with two customers and is running the next one
C7_Witness ==
    \E a \in Addresses("Carousel") :
        /\ components[a].rides >= 1
        /\ Len(SentBy(a, "RideEnded")) >= 2
        /\ components[a].state.name = "Running"
        /\ OnRide(a) # <<>>

\* ------------------------------------------------------------------------
\* C8: handling a StandardWaitEnded(c) or ExtendedWaitEnded(c) whose c is not
\* the carousel's current cycle changes nothing in the carousel and
\* schedules nothing.
\* ------------------------------------------------------------------------
StaleDelivery ==
    /\ phase \in {"idle", "ticking"}
    /\ events # <<>>
    /\ LET e == HeapPeek(events)
       IN  /\ components[e.to_address].kind = "Carousel"
           /\ e.message.name \in {"StandardWaitEnded", "ExtendedWaitEnded"}
           /\ e.message.cycle # components[e.to_address].cycle

C8_StaleWaitEndIgnored ==
    [][StaleDelivery =>
          /\ components'[HeapPeek(events).to_address] = components[HeapPeek(events).to_address]
          /\ pushed' = pushed]_vars

\* ------------------------------------------------------------------------
\* C9: the cycle counter of a carousel starts at 0 and equals, in every
\* state, the number of rides begun so far, i.e. the number of Start events
\* the carousel has scheduled (one per start_ride); so it grows by one at
\* each start_ride and is changed by nothing else.
\* ------------------------------------------------------------------------
StartsScheduled(a) ==
    Cardinality({e \in AllPushed : e.from_address = a /\ e.message.name = "Start"})

C9_CycleCountsRides ==
    /\ [](\A a \in Addresses("Carousel") : components[a].cycle = StartsScheduled(a))
    /\ [][\A a \in Addresses("Carousel") :
            \/ components'[a].cycle = components[a].cycle
            \/ /\ components'[a].cycle = components[a].cycle + 1
               /\ components'[a].state.name = "Starting"]_vars

\* a carousel has begun its second ride
C9_Witness ==
    \E a \in Addresses("Carousel") :
        components[a].cycle = 2 /\ components[a].state.name = "Starting"

\* ------------------------------------------------------------------------
\* C10: when the event queue has drained, every configured customer has been
\* spawned, is Idle with no carousel left and has had as many rides as its
\* visit list is long, and every carousel is Idle with empty inner queue,
\* outer queue and ride.
\* ------------------------------------------------------------------------
C10_FinalState ==
    Quiescent =>
        /\ Cardinality(Addresses("Customer")) = Len(config.customers)
        /\ \A x \in Addresses("Customer") :
              /\ components[x].state.name = "Idle"
              /\ components[x].carousels = <<>>
              /\ components[x].number_of_rides = Len(components[x].config.carousels)
        /\ \A a \in Addresses("Carousel") :
              /\ components[a].state.name = "Idle"
              /\ components[a].customers_inner_queue = <<>>
              /\ components[a].customers_outer_queue = <<>>
              /\ components[a].customers_on_ride = <<>>

\* ------------------------------------------------------------------------
\* C11: a run is a function of the configuration: every step of every run
\* leads to the one successor computed from the current state alone (start()
\* gives the same engine whatever order HashMap::keys yields, and a delivery
\* pops the heap's top), so two runs of one configuration deliver the same
\* events in the same order and end in the same component states.
\* ------------------------------------------------------------------------
Ascending(S) == CHOOSE o \in KeyOrders(S) : \A i, j \in DOMAIN o : i < j => o[i] < o[j]

Successor ==
    IF phase = "registered"
    THEN StartAll(System, Ascending(DOMAIN components))
    ELSE HandleOne(IF phase = "idle" THEN TickBegin(System) ELSE System)

C11_Deterministic ==
    [][/\ current_time' = Successor.current_time
       /\ components' = Successor.components
       /\ events' = Successor.events
       /\ address_generator' = Successor.address_generator
       /\ pushed' = Successor.pushed
       /\ history' = IF phase = "registered" THEN history
                     ELSE Append(history, HeapPeek(events))]_vars

\* a run of a park with two carousels (three components to start, in any of
\* six orders) has come to its end after at least eight deliveries
C11_Witness ==
    /\ Quiescent
    /\ Len(config.carousels) = 2
    /\ Len(history) >= 8

\* ------------------------------------------------------------------------
\* C12: every configured customer is either still pending in the
\* dispatcher's heap or has been spawned as exactly one component, never
\* both; a customer is spawned in a step that ends at its arrival_time, and
\* its start has run in that step (started_waiting_on is that time and its
\* first CustomerArrived is queued for that time); the dispatcher has
\* handled one Tick for each distinct arrival time of the spawned customers
\* and no other, whatever the order of the customers in the configuration.
\* ------------------------------------------------------------------------
Dispatcher == components[CHOOSE a \in DOMAIN components : components[a].kind = "CustomerDispatcher"]

Pending(id) == Cardinality({i \in DOMAIN Dispatcher.customers_configs :
                               Dispatcher.customers_configs[i].id = id})

Spawned(id) == {a \in Addresses("Customer") : components[a].config.id = id}

TicksHandled == {e \in Range(history) : e.message.name = "Tick"}

C12_SpawnedOnceAtArrival ==
    /\ [](/\ \A i \in DOMAIN config.customers :
                LET id == config.customers[i].id
                IN  /\ Pending(id) + Cardinality(Spawned(id)) = 1
                    /\ \A a \in Spawned(id) : components[a].config = config.customers[i]
          /\ \A e, f \in TicksHandled : e.time = f.time => e = f
          /\ {e.time : e \in TicksHandled} =
                 {components[a].config.arrival_time : a \in Addresses("Customer")})
    /\ [][\A a \in DOMAIN components' \ DOMAIN components :
             /\ components'[a].kind = "Customer"
             /\ components'[a].config.arrival_time = current_time'
             /\ components'[a].started_waiting_on = current_time'
             /\ components'[a].config.carousels # <<>> =>
                   /\ components'[a].state.name = "WaitingOnCarousel"
                   /\ \E i \in DOMAIN events' :
                         /\ events'[i].from_address = a
                         /\ events'[i].message.name = "CustomerArrived"
                         /\ events'[i].time = current_time']_vars

\* the configuration lists a later customer before an earlier one and both
\* have been spawned
C12_Witness ==
    /\ Len(config.customers) = 2
    /\ config.customers[1].arrival_time > config.customers[2].arrival_time
    /\ Cardinality(Addresses("Customer")) = 2
    /\ Cardinality(TicksHandled) = 2

\* ------------------------------------------------------------------------
\* C13: once the dispatcher has been started, between any two handler
\* invocations: if its heap of pending customers is non-empty the event
\* queue holds exactly one Tick, addressed to the dispatcher and due at the
\* least pending arrival_time; if the heap is empty the queue holds no Tick.
\* ------------------------------------------------------------------------
TicksQueued == {i \in DOMAIN events : events[i].message.name = "Tick"}

C13_OneTickPending ==
    phase # "registered" =>
        LET heap == Dispatcher.customers_configs
        IN  IF heap # <<>>
            THEN /\ Cardinality(TicksQueued) = 1
                 /\ \A i \in TicksQueued :
                       /\ components[events[i].to_address].kind = "CustomerDispatcher"
                       /\ \A j \in DOMAIN heap : events[i].time <= heap[j].arrival_time
                       /\ \E j \in DOMAIN heap : events[i].time = heap[j].arrival_time
            ELSE TicksQueued = {}

\* the dispatcher has handled a Tick and rescheduled itself for a later customer
C13_Witness ==
    /\ TicksHandled # {}
    /\ Dispatcher.customers_configs # <<>>
    /\ \E i \in TicksQueued : events[i].time > current_time

\* ------------------------------------------------------------------------
\* C14: ride timing.  A step in which a carousel calls start_ride at time t0
\* (its cycle grows) leaves it Starting(t0) with a Start due at t0 + 1; the
\* step that delivers that Start happens at t0 + 1, schedules RideStarted
\* for that time to every boarded customer and EndRide for t0 + run_time;
\* the step that delivers EndRide happens at the time it was scheduled for,
\* schedules RideEnded for that time to every rider and leaves the carousel
\* StandardWaiting with a StandardWaitEnded of its cycle due wait_time later.
\* Every event, RideStarted and RideEnded included, is delivered at the time
\* it was scheduled for.
\* ------------------------------------------------------------------------
Scheduled(name, from, to, time) ==
    \E i \in DOMAIN events' :
        /\ events'[i].seq > pushed
        /\ events'[i].message.name = name
        /\ events'[i].from_address = from
        /\ events'[i].to_address = to
        /\ events'[i].time = time

Announced(x) == SentBy(x, "CustomerArrived")

C15_VisitsInOrder ==
    /\ [](/\ \A x \in Addresses("Customer") :
                Announced(x) \o [i \in DOMAIN components[x].carousels |->
                                    components[x].carousels[i].address]
                    = [i \in DOMAIN components[x].config.carousels |->
                          Dispatcher.carousels[components[x].config.carousels[i]]]
          /\ phase = "idle" =>
                \A i \in DOMAIN events : events[i].message.name # "CustomerArrived")
    /\ [][phase # "registered" /\ events # <<>> =>
            LET e == HeapPeek(events)
            IN  \A x \in Addresses("Customer") :
                   /\ (/\ e.to_address = x
                       /\ e.message.name = "RideEnded"
                       /\ components[x].carousels # <<>>) =>
                          Scheduled("CustomerArrived", x,
                                    Head(components[x].carousels).address, current_time')
                   /\ (\E i \in DOMAIN events' :
                          /\ events'[i].seq > pushed
                          /\ events'[i].from_address = x
                          /\ events'[i].message.name = "CustomerArrived") =>
                          /\ e.to_address = x
                          /\ e.message.name = "RideEnded"
                          /\ components[x].state.name = "OnCarousel"]_vars

\* ------------------------------------------------------------------------
\* C16: in every reachable state, a component handed a message whose
\* envelope tag is not that of its kind stays exactly as it is, metrics
\* included, and returns an empty effector.
\* ------------------------------------------------------------------------
Envelopes ==
    {CarouselEvent(n, 0) : n \in {"CustomerArrived", "Start", "EndRide",
                                   "StandardWaitEnded", "ExtendedWaitEnded"}}
        \cup {CustomerEvent(n) : n \in {"RideStarted", "RideEnded"}}
        \cup {CustomerDispatcherEvent("Tick")}

TagOf(kind) == kind \o "Event"

C16_MismatchedIgnored ==
    \A a \in DOMAIN components, sender \in DOMAIN components, m \in Envelopes :
        m.tag # TagOf(components[a].kind) =>
            ComponentHandle(components[a],
                            [self_address |-> a, sender_address |-> sender,
                             current_time |-> current_time], m)
                = [comp |-> components[a], eff |-> NewEffector]

\* ------------------------------------------------------------------------
\* C17: register_component starts nothing (before start() nothing has been
\* scheduled and every component is as constructed); start() starts every
\* registered component exactly once, in ascending address order; and when
\* start() has returned no event due at time 0 is left in the queue.
\* ------------------------------------------------------------------------
C17_StartInAddressOrder ==
    /\ phase = "registered" =>
          /\ events = <<>> /\ pushed = 0
          /\ System = Registered(config)
    /\ (phase # "registered" /\ history = <<>>) =>
          /\ start_order \in KeyOrders(DOMAIN Registered(config).components)
          /\ \A i, j \in DOMAIN start_order : i < j => start_order[i] < start_order[j]
    /\ phase = "idle" => \A i \in DOMAIN events : events[i].time # 0

\* ------------------------------------------------------------------------
\* C18: bootstrap_system returns the validation error, and builds no engine,
\* exactly when the configuration breaks a rule: two carousels share an id;
\* a run_time, wait_time or extend_time is below 1; a capacity is below 1; a
\* min_capacity is below 1 or above the capacity; a customer names an id no
\* carousel has.  Every other configuration yields an engine whose
\* components have all been started.
\* ------------------------------------------------------------------------
RulesViolated(cfg) ==
    \/ \E i, j \in DOMAIN cfg.carousels : i # j /\ cfg.carousels[i].id = cfg.carousels[j].id
    \/ \E i \in DOMAIN cfg.carousels :
          \/ cfg.carousels[i].run_time < 1
          \/ cfg.carousels[i].wait_time < 1
          \/ cfg.carousels[i].extend_time < 1
          \/ cfg.carousels[i].capacity < 1
          \/ cfg.carousels[i].min_capacity < 1
          \/ cfg.carousels[i].min_capacity > cfg.carousels[i].capacity
    \/ \E i \in DOMAIN cfg.customers : \E j \in DOMAIN cfg.customers[i].carousels :
          \A k \in DOMAIN cfg.carousels :
              cfg.carousels[k].id # cfg.customers[i].carousels[j]

C18_RejectedIffRuleBroken ==
    phase # "config" =>
        /\ phase = "rejected" <=> RulesViolated(config)
        /\ phase = "rejected" => components = <<>> /\ events = <<>>
        /\ phase # "rejected" =>
              /\ DOMAIN components = 0..Len(config.carousels)
              /\ start_order \in KeyOrders(DOMAIN components)
              /\ Dispatcher.customers_configs # <<>> => events # <<>>

\* a configuration whose only defect is two sound carousels sharing an id
\* has been rejected
C18_Witness ==
    /\ phase = "rejected"
    /\ Len(config.carousels) = 2
    /\ config.carousels[1].id = config.carousels[2].id
    /\ \A i \in DOMAIN config.carousels :
          validate_config([carousels |-> <<config.carousels[i]>>, customers |-> <<>>])
    /\ config.customers[1].carousels = <<1>>

\* ------------------------------------------------------------------------
\* C19: a carousel in StandardWaiting that handles the StandardWaitEnded of
\* its cycle does exactly one of three things, by the length n of its inner
\* queue: n >= min_capacity: Starting(current_time), cycle + 1, Start
\* scheduled one tick ahead; n = 0: Idle(ExtendedWaiting), idle_started =
\* current_time, nothing scheduled; 0 < n < min_capacity: ExtendedWaiting,
\* ExtendedWaitEnded(cycle) scheduled extend_time ahead.
\* ------------------------------------------------------------------------
StandardWaitEnds ==
    /\ phase # "registered"
    /\ events # <<>>
    /\ LET e == HeapPeek(events)
       IN  /\ components[e.to_address].kind = "Carousel"
           /\ components[e.to_address].state = StandardWaiting
           /\ e.message = CarouselEvent("StandardWaitEnded", components[e.to_address].cycle)

C19_StandardWaitEnd ==
    [][StandardWaitEnds =>
         LET a == HeapPeek(events).to_address
             c == components[a]
             d == components'[a]
             n == Len(c.customers_inner_queue)
         IN  /\ n >= c.config.min_capacity =>
                   /\ d.state = Starting(current_time')
                   /\ d.cycle = c.cycle + 1
                   /\ Scheduled("Start", a, a, current_time' + 1)
                   /\ pushed' = pushed + 1
             /\ n = 0 =>
                   /\ d.state = Idle("ExtendedWaiting")
                   /\ d.idle_started = current_time'
                   /\ d.cycle = c.cycle
                   /\ pushed' = pushed
             /\ (0 < n /\ n < c.config.min_capacity) =>
                   /\ d.state = ExtendedWaiting
                   /\ d.cycle = c.cycle
                   /\ \E i \in DOMAIN events' :
                         /\ events'[i].seq > pushed
                         /\ events'[i].message = CarouselEvent("ExtendedWaitEnded", c.cycle)
                         /\ events'[i].to_address = a
                         /\ events'[i].time = current_time' + c.config.extend_time
                   /\ pushed' = pushed + 1]_vars

\* a standard wait has just ended with fewer customers than min_capacity: the
\* carousel is in its extended wait, whose timer is two ticks ahead
C19_Witness ==
    /\ history # <<>>
    /\ history[Len(history)].message.name = "StandardWaitEnded"
    /\ LET c == components[history[Len(history)].to_address]
       IN  /\ c.state = ExtendedWaiting
           /\ c.config.extend_time = 2
           /\ Len(c.customers_inner_queue) = 1
           /\ \E i \in DOMAIN events :
                 events[i].message.name = "ExtendedWaitEnded"
                     /\ events[i].time = current_time + 2

\* ------------------------------------------------------------------------
\* C20: a carousel in ExtendedWaiting calls start_ride (cycle + 1, mode
\* Starting(current_time)) in exactly two cases: it handles a
\* CustomerArrived that leaves inner.len >= min_capacity, or it handles the
\* ExtendedWaitEnded of its cycle, whatever the queue length; in every other
\* case it stays ExtendedWaiting in the same cycle.  An ExtendedWaitEnded of
\* another cycle never starts a ride, in whatever mode it arrives, so the
\* timer left pending by an early start starts no second ride.  While the
\* carousel is ExtendedWaiting the timer of its cycle is queued.
\* ------------------------------------------------------------------------
Delivery == phase # "registered" /\ events # <<>>

C20_ExtendedWaitStartsOnce ==
    /\ [](\A a \in Addresses("Carousel") :
             components[a].state = ExtendedWaiting =>
                 Cardinality({i \in DOMAIN events :
                     /\ events[i].to_address = a
                     /\ events[i].message =
                            CarouselEvent("ExtendedWaitEnded", components[a].cycle)}) = 1)
    /\ [][Delivery =>
            LET e == HeapPeek(events)
                a == e.to_address
                c == components[a]
                d == components'[a]
                started == d.cycle = c.cycle + 1 /\ d.state = Starting(current_time')
            IN  c.kind = "Carousel" =>
                   /\ c.state = ExtendedWaiting =>
                         /\ started <=>
                               \/ /\ e.message.name = "CustomerArrived"
                                  /\ Len(d.customers_inner_queue) >= c.config.min_capacity
                               \/ e.message = CarouselEvent("ExtendedWaitEnded", c.cycle)
                         /\ ~started => d.state = ExtendedWaiting /\ d.cycle = c.cycle
                   /\ (e.message.name = "ExtendedWaitEnded" /\ e.message.cycle # c.cycle) =>
                         d.cycle = c.cycle /\ d.state = c.state]_vars

\* an arrival has started the ride early and the timer of the extended wait,
\* now of an old cycle, has been delivered since: the carousel has begun one
\* ride only
C20_Witness ==
    /\ history # <<>>
    /\ LET e == history[Len(history)]
       IN  /\ e.message.name = "ExtendedWaitEnded"
           /\ e.message.cycle = 0
           /\ components[e.to_address].cycle = 1
           /\ \E i \in DOMAIN history :
                 /\ history[i].to_address = e.to_address
                 /\ history[i].message.name = "CustomerArrived"
                 /\ history[i].time < e.time
                 /\ \E j \in DOMAIN history :
                       /\ j < i
                       /\ history[j].to_address = e.to_address
                       /\ history[j].message = CarouselEvent("StandardWaitEnded", 0)
                       /\ history[j].time < history[i].time

\* ------------------------------------------------------------------------
\* C21: intake rule.  A step that delivers CustomerArrived to a carousel
\* appends the sender (with the current time as its arrival time) to exactly
\* one queue and changes the queues in no other way: to the outer queue if
\* the mode was Starting(t0) with t0 # current_time, otherwise to the inner
\* queue if inner.len < capacity and else to the outer queue.  The intake
\* comes before the mode dispatch: a customer whose arrival ends an Idle mode
\* is in the inner queue of the waiting carousel; and a sender put in the
\* outer queue while the inner queue had room arrived strictly after t0.
\* ------------------------------------------------------------------------
C21_IntakeRule ==
    [][Delivery =>
         LET e == HeapPeek(events)
             a == e.to_address
             c == components[a]
             d == components'[a]
             info == [address |-> e.from_address, arrival_time |-> current_time']
             room == Len(c.customers_inner_queue) < c.config.capacity
             late == c.state.name = "Starting" /\ c.state.time # current_time'
         IN  (c.kind = "Carousel" /\ e.message.name = "CustomerArrived") =>
                /\ IF late \/ ~room
                   THEN /\ d.customers_outer_queue = Append(c.customers_outer_queue, info)
                        /\ d.customers_inner_queue = c.customers_inner_queue
                   ELSE /\ d.customers_inner_queue = Append(c.customers_inner_queue, info)
                        /\ d.customers_outer_queue = c.customers_outer_queue
                /\ c.state.name = "Idle" =>
                      /\ d.state.name \in {"StandardWaiting", "ExtendedWaiting"}
                      /\ d.customers_inner_queue[Len(d.customers_inner_queue)] = info
                /\ (late /\ room) => c.state.time < current_time']_vars

\* a carousel that decided to start at t0 has since been handed an arrival:
\* the customer waits in the outer queue although the inner queue has room
C21_Witness ==
    \E a \in Addresses("Carousel") :
        /\ components[a].state.name = "Starting"
        /\ Len(components[a].customers_inner_queue) < components[a].config.capacity
        /\ \E i \in DOMAIN components[a].customers_outer_queue :
              components[a].customers_outer_queue[i].arrival_time > components[a].state.time

\* ------------------------------------------------------------------------
\* C22: do_ride.  A step in which a carousel in Starting handles Start makes
\* on_ride the previous inner queue, the inner queue the first
\* min(capacity, outer.len) customers of the previous outer queue in their
\* order, the outer queue the rest and the mode Running; and it schedules
\* exactly RideStarted for the current time to each boarded customer, in
\* queue order, and then EndRide to the carousel run_time - 1 ticks ahead.
\* ------------------------------------------------------------------------
NewEvents == BySeq({events'[i] : i \in {j \in DOMAIN events' : events'[j].seq > pushed}})

C23_IdleTimeOnlyOnArrival ==
    /\ [](\A a \in Addresses("Carousel") : components[a].idle_time <= current_time)
    /\ [][Delivery =>
            LET e == HeapPeek(events)
            IN  \A a \in Addresses("Carousel") :
                   IF /\ e.to_address = a
                      /\ e.message.name = "CustomerArrived"
                      /\ components[a].state.name = "Idle"
                   THEN components'[a].idle_time =
                            components[a].idle_time
                                + (current_time' - components[a].idle_started)
                   ELSE components'[a].idle_time = components[a].idle_time]_vars

\* ------------------------------------------------------------------------
\* C24: nobody is stranded in the overflow line.  After every handler
\* return, a carousel that is not Starting and has a customer in its outer
\* queue has a full inner queue; and a carousel in an Idle mode has empty
\* inner and outer queues.
\* ------------------------------------------------------------------------
C24_NoneStranded ==
    \A a \in Addresses("Carousel") :
        LET c == components[a]
        IN  /\ (c.state.name # "Starting" /\ c.customers_outer_queue # <<>>) =>
                   Len(c.customers_inner_queue) = c.config.capacity
            /\ c.state.name = "Idle" =>
                   c.customers_inner_queue = <<>> /\ c.customers_outer_queue = <<>>

\* a ride has ended and the carousel waits for the next one with customers
\* still in the outer queue, behind a full inner queue of two
C24_Witness ==
    \E a \in Addresses("Carousel") :
        /\ components[a].state = StandardWaiting
        /\ components[a].rides >= 1
        /\ components[a].customers_outer_queue # <<>>
        /\ components[a].config.capacity = 2
        /\ Len(components[a].customers_inner_queue) = 2

\* ------------------------------------------------------------------------
\* C25: after every handler return each carousel has queued exactly the
\* timer its mode needs, once: a StandardWaitEnded of its cycle if and only
\* if it is StandardWaiting, an ExtendedWaitEnded of its cycle if and only
\* if it is ExtendedWaiting, a Start if and only if it is Starting, an
\* EndRide if and only if it is Running, and none of these in an Idle mode;
\* all of them were sent by the carousel itself.
\* ------------------------------------------------------------------------
Timers(a, message) ==
    Cardinality({i \in DOMAIN events :
                    events[i].to_address = a /\ events[i].message = message})

C25_OneTimerPerMode ==
    \A a \in Addresses("Carousel") :
        LET c == components[a]
            One(mode) == IF c.state.name = mode THEN 1 ELSE 0
        IN  /\ Timers(a, CarouselEvent("StandardWaitEnded", c.cycle)) = One("StandardWaiting")
            /\ Timers(a, CarouselEvent("ExtendedWaitEnded", c.cycle)) = One("ExtendedWaiting")
            /\ Timers(a, CarouselEvent("Start", 0)) = One("Starting")
            /\ Timers(a, CarouselEvent("EndRide", 0)) = One("Running")
            /\ \A i \in DOMAIN events :
                  (events[i].to_address = a /\ events[i].message.name # "CustomerArrived")
                      => events[i].from_address = a

\* a ride started early is running: its EndRide is queued next to the timer
\* of the extended wait, which carries the old cycle
C25_Witness ==
    \E a \in Addresses("Carousel") :
        /\ components[a].state = Running
        /\ components[a].cycle = 1
        /\ Timers(a, CarouselEvent("ExtendedWaitEnded", 0)) = 1
        /\ Timers(a, CarouselEvent("EndRide", 0)) = 1

\* ------------------------------------------------------------------------
\* C26: no run of a validated configuration reaches an abort path: every
\* queued event is addressed to a registered component (the lookup of tick()
\* succeeds), and no handler panics (no carousel handles CustomerArrived in
\* an Idle mode whose next state is not a waiting mode, and the dispatcher
\* looks up only carousel ids its map has), so the run never aborts.
\* ------------------------------------------------------------------------
C26_NoAbort ==
    /\ phase # "aborted"
    /\ \A i \in DOMAIN events : events[i].to_address \in DOMAIN components
    /\ \A a \in Addresses("Carousel") :
          components[a].state.name = "Idle" =>
              components[a].state.next \in {"StandardWaiting", "ExtendedWaiting"}
    /\ \A i \in DOMAIN Dispatcher.customers_configs :
          \A j \in DOMAIN Dispatcher.customers_configs[i].carousels :
              Dispatcher.customers_configs[i].carousels[j] \in DOMAIN Dispatcher.carousels

\* a run with two carousels has ended: the dispatcher has looked up both for
\* a customer touring them, and a carousel that was idle after a ride has
\* been handed an arrival
C26_Witness ==
    /\ Quiescent
    /\ \E x \in Addresses("Customer") :
          /\ components[x].config.carousels = <<1, 2>>
          /\ components[x].number_of_rides = 2
    /\ \E i \in DOMAIN history :
          /\ history[i].message.name = "CustomerArrived"
          /\ components[history[i].to_address].idle_time > 0

\* ------------------------------------------------------------------------
\* C27: the customer's time arithmetic never underflows.  Whenever a
\* customer in WaitingOnCarousel is delivered RideStarted, current_time >=
\* started_waiting_on + 1 (it announced itself strictly earlier), so
\* current_time - started_waiting_on - 1 is not negative; and whenever
\* next_run computes total_time = time - arrival_time (at the customer's
\* start and on RideEnded in OnCarousel), time >= arrival_time.  Hence both
\* sums are never negative.
\* ------------------------------------------------------------------------
C27_NoUnderflow ==
    /\ [](\A x \in Addresses("Customer") :
             components[x].total_waiting_time >= 0 /\ components[x].total_time >= 0)
    /\ [][Delivery =>
            LET e == HeapPeek(events)
                c == components[e.to_address]
            IN  /\ c.kind = "Customer" =>
                      /\ (c.state.name = "WaitingOnCarousel" /\ e.message.name = "RideStarted")
                            => current_time' >= c.started_waiting_on + 1
                      /\ (c.state.name = "OnCarousel" /\ e.message.name = "RideEnded")
                            => current_time' >= c.config.arrival_time
                /\ \A a \in DOMAIN components' \ DOMAIN components :
                      current_time' >= components'[a].config.arrival_time]_vars

\* a customer whose arrival at time 1 made an extended wait long enough has
\* boarded one tick later, at the earliest time the arithmetic allows, next
\* to a customer who had waited longer
C27_Witness ==
    /\ history # <<>>
    /\ history[Len(history)].message.name = "RideStarted"
    /\ LET x == history[Len(history)].to_address
       IN  /\ components[x].state.name = "OnCarousel"
           /\ components[x].started_waiting_on = 1
           /\ current_time = components[x].started_waiting_on + 1
           /\ components[x].total_waiting_time = 0
           /\ \E y \in Addresses("Customer") :
                 /\ components[y].state.name = "OnCarousel"
                 /\ components[y].total_waiting_time > 0

\* ------------------------------------------------------------------------
\* C28: no ride runs empty.  A step that calls start_ride (the cycle grows)
\* leaves at least one customer in the inner queue, and the queue stays
\* non-empty while the carousel is Starting; on_ride is non-empty if and
\* only if the mode is Running; and a step that delivers EndRide to a
\* Running carousel schedules at least one RideEnded.
\* ------------------------------------------------------------------------
C28_NoEmptyRide ==
    /\ [](\A a \in Addresses("Carousel") :
             /\ components[a].state.name = "Starting" =>
                    components[a].customers_inner_queue # <<>>
             /\ components[a].state.name = "Running" <=>
                    components[a].customers_on_ride # <<>>)
    /\ [][Delivery =>
            LET e == HeapPeek(events)
                a == e.to_address
                c == components[a]
                d == components'[a]
            IN  c.kind = "Carousel" =>
                   /\ d.cycle # c.cycle => d.customers_inner_queue # <<>>
                   /\ (c.state = Running /\ e.message.name = "EndRide") =>
                         \E i \in DOMAIN events' :
                            /\ events'[i].seq > pushed
                            /\ events'[i].from_address = a
                            /\ events'[i].message = CustomerEvent("RideEnded")]_vars

\* an extended wait has run out and the ride has gone with one customer,
\* fewer than min_capacity
C28_Witness ==
    \E a \in Addresses("Carousel") :
        /\ components[a].state = Running
        /\ Len(components[a].customers_on_ride) = 1
        /\ components[a].config.min_capacity = 2
        /\ \E i \in DOMAIN history :
              /\ history[i].to_address = a
              /\ history[i].message = CarouselEvent("ExtendedWaitEnded", components[a].cycle - 1)

\* ------------------------------------------------------------------------
\* C29: no overtaking at a carousel.  Customers board in the order their
\* CustomerArrived messages were handled: the customers the carousel has
\* sent RideStarted, in sending order, followed by those in its inner and
\* then its outer queue, are the senders of the CustomerArrived messages it
\* has handled, in handling order; and the RideStarted messages are dated
\* in non-decreasing order.  So of two customers the one handled first
\* rides in the same ride as the other or in an earlier one.
\* ------------------------------------------------------------------------
ArrivalsAt(a) ==
    LET At(e) == e.to_address = a /\ e.message.name = "CustomerArrived"
        h == SelectSeq(history, At)
    IN  [i \in DOMAIN h |-> h[i].from_address]

Boardings(a) ==
    BySeq({e \in AllPushed : e.from_address = a /\ e.message.name = "RideStarted"})

C29_NoOvertaking ==
    \A a \in Addresses("Carousel") :
        /\ ArrivalsAt(a) = [i \in DOMAIN Boardings(a) |-> Boardings(a)[i].to_address]
                              \o [i \in DOMAIN Queue(a) |-> Queue(a)[i].address]
        /\ \A i, j \in DOMAIN Boardings(a) :
              i < j => Boardings(a)[i].time <= Boardings(a)[j].time

\* within one tick a carousel handled an arrival (put in the outer queue, the
\* carousel being about to start), then Start, then another arrival; the two
\* customers are now on the next ride, the earlier one first
C29_Witness ==
    \E a \in Addresses("Carousel") :
        /\ components[a].rides = 1
        /\ Len(components[a].customers_on_ride) = 2
        /\ \E i, j, k \in DOMAIN history :
              /\ i < j /\ j < k
              /\ history[i].time = history[k].time
              /\ history[i].to_address = a /\ history[i].message.name = "CustomerArrived"
              /\ history[j].to_address = a /\ history[j].message.name = "Start"
              /\ history[k].to_address = a /\ history[k].message.name = "CustomerArrived"
              /\ components[a].customers_on_ride[1].address = history[i].from_address
              /\ components[a].customers_on_ride[2].address = history[k].from_address

====
